---- MODULE Spec2Model ----
(***************************************************************************)
(* The PSF model hierarchy of eleanor/models.py: the base Model, the shape *)
(* models Gaussian, Moffat, Airy, Zernike, the convolution wrapper PRFWrap *)
(* and the autograd primitive ModifiedBesselFn.                            *)
(*                                                                         *)
(* Numbers.  Scalars (fluxes, shifts, optical parameters) are exact        *)
(* rationals <<n, d>>.  Python lists, numpy vectors and dicts keyed by     *)
(* 0-based integers are functions on 0..len-1.  A 2-D tensor is a record   *)
(* [rows, cols, at] with at[i][k] the element of row i, column k.          *)
(* Transcendental results are kept as exact terms: exp(u) is the record    *)
(* [t |-> "exp", e |-> u] whose exponent u = p + q*sqrt(n) is computed     *)
(* exactly (cos and sin of a multiple of atan2(dy, dx) lie in Q(sqrt(r2)));*)
(* a power, a Bessel value, a quotient by torch.sum and Python's sum() are *)
(* the terms the code builds, so two equal terms are equal images.         *)
(***************************************************************************)
EXTENDS Integers, Sequences, FiniteSets, TLC

VARIABLES inst, out, ctx, bwd

vars == <<inst, out, ctx, bwd>>

(* ------------------------------ bounds -------------------------------- *)
MaxRows == 4
MaxCols == 2
MaxInp == 3
MaxNu == 2

(* --------------------------- exact numbers ---------------------------- *)
Abs(n) == IF n < 0 THEN -n ELSE n

RECURSIVE GCD(_, _)
GCD(a, b) == IF b = 0 THEN a ELSE GCD(b, a % b)

Rat(n, d) ==
    LET g == GCD(Abs(n), Abs(d))
        s == IF d < 0 THEN -1 ELSE 1
    IN  <<(s * n) \div g, (s * d) \div g>>

RI(n) == <<n, 1>>
RZero == RI(0)
ROne == RI(1)
RHalf == <<1, 2>>
RAdd(a, b) == Rat(a[1] * b[2] + b[1] * a[2], a[2] * b[2])
RNeg(a) == <<-a[1], a[2]>>
RSub(a, b) == RAdd(a, RNeg(b))
RMul(a, b) == Rat(a[1] * b[1], a[2] * b[2])
RSq(a) == RMul(a, a)
RAbs(a) == <<Abs(a[1]), a[2]>>
RGt(a, b) == a[1] * b[2] > b[1] * a[2]

RECURSIVE IPow(_, _)
IPow(b, k) == IF k = 0 THEN 1 ELSE b * IPow(b, k - 1)

\* The integer s with s*s = n, or -1 when n is no perfect square.
ISqrt(n) ==
    IF \E s \in 0..n : s * s = n THEN CHOOSE s \in 0..n : s * s = n ELSE -1

(* An exponent p + q*sqrt(n); n = 0 whenever q = 0, so the form is unique. *)
ERat(r) == [p |-> r, q |-> RZero, n |-> 0]
ESurd(q, n) ==
    IF q = RZero \/ n = 0 THEN ERat(RZero)
    ELSE IF ISqrt(n) >= 0 THEN ERat(RMul(q, RI(ISqrt(n))))
    ELSE [p |-> RZero, q |-> q, n |-> n]
EAdd(a, b) ==
    LET q == RAdd(a.q, b.q)
    IN  [p |-> RAdd(a.p, b.p), q |-> q,
         n |-> IF q = RZero THEN 0 ELSE IF a.n # 0 THEN a.n ELSE b.n]
EScale(r, a) ==
    LET q == RMul(r, a.q)
    IN  [p |-> RMul(r, a.p), q |-> q, n |-> IF q = RZero THEN 0 ELSE a.n]

(* ------------------------ lists and tensors --------------------------- *)
Arr(s) == [i \in 0..(Len(s) - 1) |-> s[i + 1]]
ALen(a) == Cardinality(DOMAIN a)
Concat(a, b) ==
    [i \in 0..(ALen(a) + ALen(b) - 1) |->
        IF i < ALen(a) THEN a[i] ELSE b[i - ALen(a)]]
\* a[lo:]
SliceFrom(a, lo) == [i \in 0..(ALen(a) - lo - 1) |-> a[i + lo]]
Rng(n) == 0..(n - 1)
\* The tensor whose rows are at[0], at[1], ...; a tensor has at least one row.
Tensor(at) == [rows |-> ALen(at), cols |-> ALen(at[0]), at |-> at]
\* The elements in row-major order, as torch.sum visits them.
Flat(T) == [n \in 0..(T.rows * T.cols - 1) |-> T.at[n \div T.cols][n % T.cols]]

Err(exc) == [kind |-> "error", exc |-> exc]
IsErr(v) == v.kind = "error"
Image(T) == [kind |-> "image", rows |-> T.rows, cols |-> T.cols, at |-> T.at]
Vector(v) == [kind |-> "vector", v |-> v]
\* Has the Python object (a record) the attribute, has the kwargs dict the key?
Has(obj, name) == name \in DOMAIN obj

\* Broadcasting of a trailing dimension c1 against c2: the common size, or 0
\* when the sizes are incompatible.
BcCols(c1, c2) ==
    IF c1 = c2 THEN c1 ELSE IF c1 = 1 THEN c2 ELSE IF c2 = 1 THEN c1 ELSE 0
Idx(k, c) == IF c = 1 THEN 0 ELSE k

(* ------------------------- Model.__init__ ----------------------------- *)
\* np.mgrid[r:r+s1-1:1j*s1, c:c+s2-1:1j*s2]: s1 (s2) points from r (c) in steps of 1.
InitGrid(shape, row_ref, col_ref) ==
    [y |-> Tensor([i \in Rng(shape[1]) |-> [k \in Rng(shape[2]) |-> row_ref + i]]),
     x |-> Tensor([i \in Rng(shape[1]) |-> [k \in Rng(shape[2]) |-> col_ref + k]])]

Row(lo, hi) == [lo |-> lo, hi |-> hi]
BaseBounds(N) ==
    Concat([j \in 0..(N - 1) |-> Row("0", "inf")],
           Arr(<<Row("-2.0", "2.0"), Row("-2.0", "2.0"), Row("0", "inf")>>))

ModelInit(cls, kw) ==
    LET g == InitGrid(kw.shape, kw.row_ref, kw.col_ref)
    IN  [cls |-> cls, shape |-> kw.shape, col_ref |-> kw.col_ref,
         row_ref |-> kw.row_ref, xc |-> kw.xc, yc |-> kw.yc, bkg0 |-> kw.bkg0,
         y |-> g.y, x |-> g.x, bounds |-> BaseBounds(ALen(kw.xc)),
         loss |-> kw.loss, prf |-> [from_source |-> kw.source]]

GaussianInit(kw) ==
    LET self == ModelInit("Gaussian", kw)
    IN  [self EXCEPT !.bounds = Concat(@,
            Arr(<<Row("0", "inf"), Row("-0.5", "0.5"), Row("0", "inf")>>))]

MoffatInit(kw) ==
    LET self == ModelInit("Moffat", kw)
    IN  [self EXCEPT !.bounds = Concat(@,
            Arr(<<Row("0", "inf"), Row("-0.5", "0.5"), Row("0", "inf"),
                  Row("0.0", "inf")>>))]

\* The warning of line 169 changes no state of the instance.
AiryInit(kw) == ModelInit("Airy", kw)

(* ------------------------ TorchZern / Zernike ------------------------- *)
Nm2Noll(n, m) ==
    (n * (n + 1)) \div 2 + Abs(m)
    + (IF (m <= 0 /\ n % 4 \in {0, 1}) \/ (m >= 0 /\ n % 4 \in {2, 3}) THEN 1 ELSE 0)

\* The tables Zern.__init__ fills for orders 0..n: nk modes, mtab[k] the
\* azimuthal frequency of the mode with Noll index k + 1.
TorchZern(n) ==
    LET nk == ((n + 1) * (n + 2)) \div 2
        NM == {nm \in (0..n) \X ((-n)..n) :
                 Abs(nm[2]) <= nm[1] /\ (nm[1] - Abs(nm[2])) % 2 = 0}
    IN  [n |-> n, nk |-> nk,
         mtab |-> [k \in 0..(nk - 1) |->
                     (CHOOSE nm \in NM : Nm2Noll(nm[1], nm[2]) = k + 1)[2]]]

\* (dx + i*dy)^k as <<re, im>>.
RECURSIVE CPow(_, _, _)
CPow(dx, dy, k) ==
    IF k = 0 THEN <<1, 0>>
    ELSE LET z == CPow(dx, dy, k - 1)
         IN  <<z[1] * dx - z[2] * dy, z[1] * dy + z[2] * dx>>

\* TorchZern.angular at one pixel, theta = atan2(dy, dx): cos(m*theta) for
\* m >= 0, sin(-m*theta) for m < 0; atan2(0, 0) = 0.
Angular(m, dy, dx) ==
    LET k == Abs(m)
        r2 == dx * dx + dy * dy
        z == CPow(dx, dy, k)
        num == IF m >= 0 THEN z[1] ELSE z[2]
    IN  IF r2 = 0 THEN ERat(IF m >= 0 THEN ROne ELSE RZero)
        ELSE IF k % 2 = 0 THEN ERat(Rat(num, IPow(r2, k \div 2)))
        ELSE ESurd(Rat(num, IPow(r2, (k + 1) \div 2)), r2)

\* get_polar_coords: rho = sqrt(r2) and theta = atan2(dy, dx), kept as terms.
GetPolarCoords(self, xo, yo) ==
    [rho |-> Tensor([i \in Rng(self.x.rows) |-> [k \in Rng(self.x.cols) |->
                [sqrt |-> (self.x.at[i][k] - xo) * (self.x.at[i][k] - xo)
                        + (self.y.at[i][k] - yo) * (self.y.at[i][k] - yo)]]]),
     theta |-> Tensor([i \in Rng(self.x.rows) |-> [k \in Rng(self.x.cols) |->
                [dy |-> self.y.at[i][k] - yo, dx |-> self.x.at[i][k] - xo]]])]

ZparsLiteral ==
    LET lit == <<25672280, 45743718, -28847825, 25672280, -7573240, 11844995,
                 -28847825, 45743718, -4414153, -4167375, 25672280, 11844995,
                 -7573240, 2526562, 7075336>>
    IN  [k \in 0..(Len(lit) - 1) |-> Rat(lit[k + 1], 100000000)]

Cutoff == 0
DefaultZernN == 4

\* (np.abs(self.zpars) > cutoff).astype(int)
ModeMask(zpars) ==
    [k \in DOMAIN zpars |-> IF RGt(RAbs(zpars[k]), RI(Cutoff)) THEN 1 ELSE 0]

\* self.coords after the loop of lines 230-239.
ZernikeCoords(self) ==
    [j \in DOMAIN self.xc |-> GetPolarCoords(self, self.xc[j], self.yc[j])]

\* self.cache after the loop of lines 230-239: for every star the basis image
\* of each of the z.nk modes, or zeros of the cutout shape for a masked mode.
ZernikeCache(self, z, mode_mask, coords, shape) ==
    [j \in DOMAIN self.xc |-> [k \in 0..(z.nk - 1) |->
        IF mode_mask[k] # 0
        THEN Tensor([i \in Rng(self.x.rows) |-> [c \in Rng(self.x.cols) |->
                Angular(z.mtab[k], coords[j].theta.at[i][c].dy,
                        coords[j].theta.at[i][c].dx)]]).at
        ELSE Tensor([i \in Rng(shape[1]) |-> [c \in Rng(shape[2]) |-> ERat(RZero)]]).at]]

\* Lines 224-239 on the instance Model.__init__ left: fitted is res.x[5:],
\* which line 225 overwrites with the literal.  mode_mask[k] is read for every
\* k < z.nk as soon as there is a star.
ZernikeFill(self, z, fitted, zpars, shape) ==
    IF ALen(self.xc) > 0 /\ z.nk > ALen(ModeMask(zpars))
    THEN [ok |-> FALSE, exc |-> "IndexError"]
    ELSE [ok |-> TRUE,
          obj |-> [z |-> z, zpars |-> zpars, mode_mask |-> ModeMask(zpars),
                   cache |-> ZernikeCache(self, z, ModeMask(zpars),
                                          ZernikeCoords(self), shape),
                   coords |-> ZernikeCoords(self)] @@ self]

\* Zernike.__init__; resx is the vector the least-squares fit of line 223
\* returns.  The result is [ok |-> TRUE, obj] or [ok |-> FALSE, exc].
ZernikeInit(kw, resx) ==
    IF Has(kw, "model") THEN [ok |-> FALSE, exc |-> "TypeError"]
    ELSE ZernikeFill(ModelInit("Zernike", kw),
                     TorchZern(IF Has(kw, "zern_n") THEN kw.zern_n ELSE DefaultZernN),
                     SliceFrom(resx, 5), ZparsLiteral, kw.shape)

(* ------------------------------ PRFWrap ------------------------------- *)
\* eval(kwargs.get('model'))(**kwargs): what the name evaluates to in the
\* module's namespace, called with the wrapper's own keyword arguments.
EvalAndCall(name, kw, resx) ==
    CASE name = "Gaussian" -> [ok |-> TRUE, obj |-> GaussianInit(kw)]
      [] name = "Moffat" -> [ok |-> TRUE, obj |-> MoffatInit(kw)]
      [] name = "Airy" -> [ok |-> TRUE, obj |-> AiryInit(kw)]
      [] name = "Model" -> [ok |-> TRUE, obj |-> ModelInit("Model", kw)]
      [] name = "Zernike" -> ZernikeInit(kw, resx)
      [] name = "PRFWrap" -> [ok |-> FALSE, exc |-> "RecursionError"]
      [] name = "TorchZern" -> [ok |-> FALSE, exc |-> "TypeError"]
      [] name = "None" -> [ok |-> FALSE, exc |-> "TypeError"]
      [] OTHER -> [ok |-> FALSE, exc |-> "NameError"]

\* PRFWrap.__init__ sets self.submodel and nothing else: Model.__init__ is
\* not called, so the wrapper has no grid, bounds, star list or prf.
Wrap(sub) ==
    IF sub.ok THEN [ok |-> TRUE, obj |-> [cls |-> "PRFWrap", submodel |-> sub.obj]]
    ELSE sub
PRFWrapInit(kw, resx) ==
    Wrap(EvalAndCall(IF Has(kw, "model") THEN kw.model ELSE "None", kw, resx))

New(cls, kw, resx) ==
    CASE cls = "Gaussian" -> [ok |-> TRUE, obj |-> GaussianInit(kw)]
      [] cls = "Moffat" -> [ok |-> TRUE, obj |-> MoffatInit(kw)]
      [] cls = "Airy" -> [ok |-> TRUE, obj |-> AiryInit(kw)]
      [] cls = "Zernike" -> ZernikeInit(kw, resx)
      [] cls = "PRFWrap" -> PRFWrapInit(kw, resx)

(* -------------------------- ModifiedBesselFn -------------------------- *)
\* What the primitive is handed: a 0-dimensional value or a 2-D tensor.
Scalar(v) == [dim |-> 0, v |-> v]
Grid(T) == [dim |-> 2, rows |-> T.rows, cols |-> T.cols, at |-> T.at]

\* scipy.special.iv(v, z): the modified Bessel function of order v at z,
\* elementwise with broadcasting; each value is the term I_v(z).
IvTerm(v, z) == [t |-> "iv", nu |-> v, x |-> z]
ScipyIv(v, z) ==
    IF v.dim = 0 /\ z.dim = 0 THEN Scalar(IvTerm(v.v, z.v))
    ELSE IF v.dim = 2 /\ z.dim = 0
    THEN Grid(Tensor([i \in Rng(v.rows) |->
                        [k \in Rng(v.cols) |-> IvTerm(v.at[i][k], z.v)]]))
    ELSE IF v.dim = 0 /\ z.dim = 2
    THEN Grid(Tensor([i \in Rng(z.rows) |->
                        [k \in Rng(z.cols) |-> IvTerm(v.v, z.at[i][k])]]))
    ELSE Grid(Tensor([i \in Rng(z.rows) |->
                        [k \in Rng(z.cols) |-> IvTerm(v.at[i][k], z.at[i][k])]]))

\* forward(ctx, inp, nu): the context it fills and the value it returns.
ModifiedBesselFnForward(inp, nu) ==
    [ctx |-> [nu |-> nu, saved |-> inp], val |-> ScipyIv(nu, inp)]

\* modified_bessel = ModifiedBesselFn.apply: the arguments go to forward in order.
modified_bessel(arg1, arg2) == ModifiedBesselFnForward(arg1, arg2)

(* ------------------------------- psf ---------------------------------- *)
Quad(a, b, c, dx, dy) ==
    RAdd(RAdd(RMul(a, RSq(dx)), RMul(RMul(RI(2), b), RMul(dx, dy))),
         RMul(c, RSq(dy)))

GaussianPsf(self, dx, dy, params, j) ==
    IF ALen(params) # 3 THEN Err("ValueError")
    ELSE LET a == params[0]
             b == params[1]
             c == params[2]
         IN  Image(Tensor([i \in Rng(dx.rows) |-> [k \in Rng(dx.cols) |->
                [t |-> "exp",
                 e |-> ERat(RNeg(Quad(a, b, c, dx.at[i][k], dy.at[i][k])))]]]))

\* Moffat.psf(self, params, dx, dy, j).  The parameters keep the names and the
\* order of the source: the first is unpacked into four, the second is squared
\* against it, the third is the vector.  1 / base ** expo is kept as a term.
MoffatPsf(self, params, dx, dy, j) ==
    IF params.rows # 4 THEN Err("ValueError")
    ELSE LET a == params.at[0]
             b == params.at[1]
             c == params.at[2]
             beta == params.at[3]
             s2 == params.cols
             W == BcCols(s2, ALen(dy))
         IN  IF W = 0 \/ BcCols(s2, dx.cols) = 0 THEN Err("RuntimeError")
             ELSE Image(Tensor([i \in Rng(dx.rows) |-> [k \in Rng(W) |->
                    LET k1 == Idx(k, s2)
                        k2 == Idx(k, ALen(dy))
                    IN  [t |-> "invpow",
                         base |-> RAdd(ROne, Quad(a[k1], b[k1], c[k1],
                                                  dx.at[i][k1], dy[k2])),
                         expo |-> RSq(beta[k1])]]]))

\* bessel_arg = np.pi * r / Rn with Rn = params (the whole vector, broadcast
\* along the columns); the element is the term pi * sqrt(r2) / Rn.
AiryBesselArg(dx, dy, params) ==
    LET W == BcCols(dx.cols, ALen(params))
    IN  IF W = 0 THEN Err("RuntimeError")
        ELSE Image(Tensor([i \in Rng(dx.rows) |-> [k \in Rng(W) |->
                [t |-> "pi_r_over",
                 r2 |-> RAdd(RSq(dx.at[i][Idx(k, dx.cols)]),
                             RSq(dy.at[i][Idx(k, dx.cols)])),
                 Rn |-> params[Idx(k, ALen(params))]]]]))

\* The call of line 176: modified_bessel(torch.tensor(1), bessel_arg).
AiryBesselCall(bessel_arg) == modified_bessel(Scalar(ROne), Grid(bessel_arg))

\* torch.pow(2 * J / bessel_arg, 2), kept as a term over J and bessel_arg.
AiryPow(J, bessel_arg) ==
    Image(Tensor([i \in Rng(bessel_arg.rows) |-> [k \in Rng(bessel_arg.cols) |->
        [t |-> "airy", J |-> J.at[i][k], arg |-> bessel_arg.at[i][k]]]]))
AiryDensity(bessel_arg) ==
    IF IsErr(bessel_arg) THEN bessel_arg
    ELSE AiryPow(AiryBesselCall(bessel_arg).val, bessel_arg)
AiryPsf(self, dx, dy, params, j) == AiryDensity(AiryBesselArg(dx, dy, params))

\* psf_c[r][c] after the loop of lines 254-257 has run over the first n modes.
RECURSIVE ZernikeAccumulate(_, _, _, _, _, _)
ZernikeAccumulate(self, zpars, j, r, c, n) ==
    IF n = 0 THEN ERat(RZero)
    ELSE LET psf_c == ZernikeAccumulate(self, zpars, j, r, c, n - 1)
         IN  IF self.mode_mask[n - 1] # 0
             THEN EAdd(psf_c, EScale(zpars[n - 1], self.cache[j][n - 1][r][c]))
             ELSE psf_c

ZernikePsf(self, dx, dy, params, j) ==
    IF ALen(params) < 2 THEN Err("ValueError")
    ELSE
    LET a == params[0]
        c == params[1]
        zpars == SliceFrom(params, 2)
        \* the mode indices at which the loop raises
        noMask == {i \in DOMAIN zpars : i \notin DOMAIN self.mode_mask}
        noCache == {i \in DOMAIN zpars \ noMask :
                      /\ self.mode_mask[i] # 0
                      /\ (j \notin DOMAIN self.cache \/ i \notin DOMAIN self.cache[j])}
        bad == noMask \cup noCache
    IN  IF bad # {}
        THEN (IF (CHOOSE i \in bad : \A i2 \in bad : i <= i2) \in noMask
              THEN Err("IndexError") ELSE Err("KeyError"))
        ELSE Image(Tensor([i \in Rng(dx.rows) |-> [k \in Rng(dx.cols) |->
                [t |-> "exp",
                 e |-> EAdd(ZernikeAccumulate(self, zpars, j, i, k, ALen(zpars)),
                            ERat(RNeg(RAdd(RMul(a, RSq(dx.at[i][k])),
                                           RMul(c, RSq(dy.at[i][k]))))))]]]))

\* self.psf(dx, dy, params, j) as Model.evaluate and PRFWrap.psf call it: the
\* arguments are positional.  The base Model defines no psf.
Psf(self, dx, dy, params, j) ==
    CASE self.cls = "Gaussian" -> GaussianPsf(self, dx, dy, params, j)
      [] self.cls = "Moffat" -> MoffatPsf(self, dx, dy, params, j)
      [] self.cls = "Airy" -> AiryPsf(self, dx, dy, params, j)
      [] self.cls = "Zernike" -> ZernikePsf(self, dx, dy, params, j)
      [] OTHER -> Err("AttributeError")

\* PRFWrap.psf.  scipy.signal is looked up first (the module imports only
\* scipy.special and scipy.optimize, so whether the attribute exists depends
\* on the installed scipy: signal says so), then the submodel's psf is
\* evaluated, then self.prf, which the wrapper never set.
Convolve2d(sub) == IF IsErr(sub) THEN sub ELSE Err("AttributeError")
PRFWrapPsf(self, dx, dy, params, j, signal) ==
    IF ~signal THEN Err("AttributeError")
    ELSE Convolve2d(Psf(self.submodel, dx, dy, params, j))

(* ------------------- Model.evaluate, mean, defaults ------------------- *)
Offsets(self, j, xs, ys) ==
    [dx |-> Tensor([i \in Rng(self.x.rows) |-> [k \in Rng(self.x.cols) |->
                RSub(RI(self.x.at[i][k]), RAdd(RI(self.xc[j]), xs))]]),
     dy |-> Tensor([i \in Rng(self.y.rows) |-> [k \in Rng(self.y.cols) |->
                RSub(RI(self.y.at[i][k]), RAdd(RI(self.yc[j]), ys))]])]

\* flux * psf / psf_sum: at each pixel the flux and the density, and the
\* 0-dimensional psf_sum every pixel is divided by (torch.sum(psf), the sum of
\* the pixels in row-major order, or tensor(1.)).
Scale(flux, psf, norm) ==
    IF IsErr(psf) THEN psf
    ELSE [kind |-> "image", rows |-> psf.rows, cols |-> psf.cols,
          at |-> Tensor([i \in Rng(psf.rows) |-> [k \in Rng(psf.cols) |->
                    [c |-> flux, num |-> psf.at[i][k]]]]).at,
          den |-> IF norm THEN [norm |-> TRUE, sum |-> Flat(psf)]
                  ELSE [norm |-> FALSE]]

EvaluateAt(self, flux, o, params, j, norm) ==
    Scale(flux, Psf(self, o.dx, o.dy, params, j), norm)

Evaluate(self, flux, xs, ys, params, j, norm) ==
    IF ~Has(self, "x") THEN Err("AttributeError")
    ELSE IF j \notin DOMAIN self.xc THEN Err("IndexError")
    ELSE EvaluateAt(self, flux, Offsets(self, j, xs, ys), params, j, norm)

\* sum([...]) + bkg over the list ev of N evaluated images: the images that
\* are added, star by star, and the background added to every pixel.  The
\* first evaluation that raises ends the call; with no star the sum is
\* Python's 0 and the result the scalar bkg.
SumPlus(ev, N, bkg) ==
    IF \E j \in 0..(N - 1) : IsErr(ev[j])
    THEN ev[CHOOSE j \in 0..(N - 1) :
                IsErr(ev[j]) /\ \A j2 \in 0..(j - 1) : ~IsErr(ev[j2])]
    ELSE IF N = 0 THEN [kind |-> "scalar", v |-> bkg]
    ELSE [kind |-> "image", rows |-> ev[0].rows, cols |-> ev[0].cols,
          terms |-> ev, bkg |-> bkg]

Mean(self, flux, xs, ys, bkg, optpars, norm) ==
    IF ~Has(self, "xc") THEN Err("AttributeError")
    ELSE SumPlus([j \in DOMAIN self.xc |->
                    IF j \notin DOMAIN flux THEN Err("IndexError")
                    ELSE Evaluate(self, flux[j], xs, ys, optpars, j, norm)],
                 ALen(self.xc), bkg)

RECURSIVE GetDefaultOptpars(_)
GetDefaultOptpars(self) ==
    CASE self.cls = "Gaussian" -> Vector(Arr(<<ROne, RZero, ROne>>))
      [] self.cls = "Moffat" -> Vector(Arr(<<ROne, RZero, ROne, ROne>>))
      [] self.cls = "Zernike" ->
            Vector(Concat(Arr(<<Rat(53327668, 100000000), Rat(53815343, 100000000)>>),
                          self.zpars))
      [] self.cls = "PRFWrap" -> GetDefaultOptpars(self.submodel)
      [] OTHER -> Err("AttributeError")

ArrMax(a) == CHOOSE v \in {a[i] : i \in DOMAIN a} : \A i \in DOMAIN a : ~RGt(a[i], v)

Concatenate(self, d0, optpars) ==
    IF IsErr(optpars) THEN optpars
    ELSE Vector(Concat(Concat([j \in DOMAIN self.xc |-> ArrMax(d0)],
                              Arr(<<RZero, RZero, self.bkg0>>)),
                       optpars.v))
GetDefaultPar(self, d0) ==
    IF ~Has(self, "xc") THEN Err("AttributeError")
    ELSE Concatenate(self, d0, GetDefaultOptpars(self))

(* ------------------------------ inputs -------------------------------- *)
Classes == {"Gaussian", "Moffat", "Airy", "Zernike", "PRFWrap"}
ShapeModels == {"Gaussian", "Moffat", "Airy", "Zernike"}
\* Names handed to PRFWrap: classes of the module, names bound to nothing.
WrappedNames ==
    {"Gaussian", "Moffat", "Airy", "Zernike", "PRFWrap", "Model", "TorchZern",
     "Lorentzian"}
\* Cutout shapes: a small one, a single column and the largest.
Shapes == {<<2, MaxCols>>, <<MaxRows, 1>>, <<MaxRows, MaxCols>>}
StarLists ==
    {[xc |-> Arr(<<>>), yc |-> Arr(<<>>)],
     [xc |-> Arr(<<0>>), yc |-> Arr(<<0>>)],
     [xc |-> Arr(<<1>>), yc |-> Arr(<<0>>)],
     [xc |-> Arr(<<0, 1>>), yc |-> Arr(<<0, 1>>)]}
ZernOrders == {3, 5}
FitOutcomes == {RZero, ROne}

BaseKwargs ==
    {[shape |-> s, col_ref |-> 0, row_ref |-> 0, xc |-> st.xc, yc |-> st.yc,
      bkg0 |-> ROne, loss |-> "loss", source |-> "source"] :
        s \in Shapes, st \in StarLists}
Kwargs(cls) ==
    CASE cls = "Zernike" ->
            BaseKwargs \cup {[zern_n |-> n] @@ kw : n \in ZernOrders, kw \in BaseKwargs}
      [] cls = "PRFWrap" ->
            BaseKwargs \cup {[model |-> m] @@ kw : m \in WrappedNames, kw \in BaseKwargs}
      [] OTHER -> BaseKwargs

\* The class whose optical parameters a caller of self passes.
ParamClass(self) ==
    IF self.cls = "PRFWrap" THEN self.submodel.cls ELSE self.cls
ZVec(a, c, L, k, v) ==
    Concat(Arr(<<a, c>>), [i \in 0..(L - 1) |-> IF i = k THEN v ELSE RZero])
OptparChoices(self) ==
    CASE ParamClass(self) = "Moffat" ->
            {Arr(<<ROne, RZero, ROne, ROne>>), Arr(<<ROne, RZero, ROne, RI(-1)>>),
             Arr(<<ROne, RHalf, RI(2), RI(2)>>)}
      [] ParamClass(self) = "Airy" -> {Arr(<<ROne>>), Arr(<<RI(2)>>)}
      [] ParamClass(self) = "Zernike" ->
            {Arr(<<ROne, ROne>>), ZVec(ROne, ROne, 3, 0, ROne),
             ZVec(ROne, ROne, 3, 1, RHalf), ZVec(RI(2), ROne, 11, 4, RI(-1))}
      [] OTHER -> {Arr(<<ROne, RZero, ROne>>), Arr(<<RI(2), RHalf, ROne>>)}
FluxVectors(self) ==
    IF Has(self, "xc")
    THEN {[j \in DOMAIN self.xc |-> ROne], [j \in DOMAIN self.xc |-> RI(j + 2)]}
    ELSE {Arr(<<ROne>>)}
StarIndices(self) ==
    IF Has(self, "xc") /\ ALen(self.xc) > 0 THEN DOMAIN self.xc ELSE {0}
Shifts == {RZero, RHalf}
Backgrounds == {RZero, RI(2)}
Observed == {Arr(<<ROne, RI(3), RI(2)>>), Arr(<<RI(5)>>)}

\* The offset grids a direct caller of psf passes: those evaluate computes,
\* on the grid of the model (for a wrapper, of its submodel).
CallerOffsets(self, j, xs, ys) ==
    LET m == IF self.cls = "PRFWrap" THEN self.submodel ELSE self
    IN  IF j \in DOMAIN m.xc THEN Offsets(m, j, xs, ys)
        ELSE Offsets([m EXCEPT !.xc = Arr(<<0>>), !.yc = Arr(<<0>>)], 0, xs, ys)

(* ------------------------------- state -------------------------------- *)
NoInst == [cls |-> "none"]
NoCall == [op |-> "none"]
NoCtx == [empty |-> TRUE]
Idle == [pc |-> "idle"]

Init ==
    /\ inst = NoInst
    /\ out = NoCall
    /\ ctx = NoCtx
    /\ bwd = Idle

\* The context of the last forward call a psf evaluation of self makes.
CtxAfter(self, o, params, res) ==
    IF self.cls = "Airy" /\ res.kind = "image"
    THEN AiryBesselCall(AiryBesselArg(o.dx, o.dy, params)).ctx
    ELSE ctx

Construct ==
    /\ inst.cls = "none"
    /\ out = NoCall
    /\ \E cls \in Classes :
       \E kw \in Kwargs(cls), fit \in FitOutcomes :
       \E r \in {New(cls, kw, [i \in 0..(TorchZern(IF Has(kw, "zern_n")
                                                   THEN kw.zern_n
                                                   ELSE DefaultZernN).nk + 4)
                                 |-> fit])} :
          /\ inst' = IF r.ok THEN r.obj ELSE inst
          /\ out' = [op |-> "init", args |-> [cls |-> cls, kw |-> kw],
                     res |-> IF r.ok THEN [kind |-> "object"] ELSE Err(r.exc)]
    /\ UNCHANGED <<ctx, bwd>>

CallPsf ==
    /\ inst.cls # "none"
    /\ out = NoCall
    /\ \E j \in StarIndices(inst), xs \in Shifts, params \in OptparChoices(inst),
          signal \in BOOLEAN :
       \E o \in {CallerOffsets(inst, j, xs, RZero)} :
       \E res \in {IF inst.cls = "PRFWrap"
                   THEN PRFWrapPsf(inst, o.dx, o.dy, params, j, signal)
                   ELSE Psf(inst, o.dx, o.dy, params, j)} :
          /\ out' = [op |-> "psf",
                     args |-> [j |-> j, xs |-> xs, ys |-> RZero, params |-> params],
                     res |-> res]
          /\ ctx' = CtxAfter(inst, o, params, res)
    /\ UNCHANGED <<inst, bwd>>

CallEvaluate ==
    /\ inst.cls # "none"
    /\ out = NoCall
    /\ \E flux \in {ROne, RI(2)}, j \in StarIndices(inst), xs \in Shifts,
          params \in OptparChoices(inst), norm \in BOOLEAN :
       \E res \in {Evaluate(inst, flux, xs, RZero, params, j, norm)} :
          /\ out' = [op |-> "evaluate",
                     args |-> [flux |-> flux, j |-> j, xs |-> xs, ys |-> RZero,
                               params |-> params, norm |-> norm],
                     res |-> res]
          /\ ctx' = IF res.kind = "image"
                    THEN CtxAfter(inst, Offsets(inst, j, xs, RZero), params, res)
                    ELSE ctx
    /\ UNCHANGED <<inst, bwd>>

\* mean as it would be if it moved the grid onto the shifted star in place
\* (self.x -= xshift + 1) instead of building dx from it.
CallMeanInPlace ==
    /\ inst.cls # "none"
    /\ out = NoCall
    /\ \E flux \in FluxVectors(inst), xs \in Shifts, bkg \in Backgrounds,
          optpars \in OptparChoices(inst), norm \in BOOLEAN :
       \E res \in {Mean(inst, flux, xs, RZero, bkg, optpars, norm)} :
          /\ out' = [op |-> "mean",
                     args |-> [flux |-> flux, xs |-> xs, ys |-> RZero, bkg |-> bkg,
                               optpars |-> optpars, norm |-> norm],
                     res |-> res]
          /\ inst' = IF res.kind = "image"
                     THEN [inst EXCEPT !.x = Tensor([i \in Rng(inst.x.rows) |->
                                [k \in Rng(inst.x.cols) |-> inst.x.at[i][k] - 1]])]
                     ELSE inst
    /\ UNCHANGED <<ctx, bwd>>

\* The context left is that of the last star evaluated.
CallMean ==
    /\ inst.cls # "none"
    /\ out = NoCall
    /\ \E flux \in FluxVectors(inst), xs \in Shifts, bkg \in Backgrounds,
          optpars \in OptparChoices(inst), norm \in BOOLEAN :
       \E res \in {Mean(inst, flux, xs, RZero, bkg, optpars, norm)} :
          /\ out' = [op |-> "mean",
                     args |-> [flux |-> flux, xs |-> xs, ys |-> RZero, bkg |-> bkg,
                               optpars |-> optpars, norm |-> norm],
                     res |-> res]
          /\ ctx' = IF res.kind = "image"
                    THEN CtxAfter(inst, Offsets(inst, ALen(inst.xc) - 1, xs, RZero),
                                  optpars, res)
                    ELSE ctx
    /\ UNCHANGED <<inst, bwd>>

CallGetDefaultPar ==
    /\ inst.cls # "none"
    /\ out = NoCall
    /\ \E d0 \in Observed :
          out' = [op |-> "get_default_par", args |-> [d0 |-> d0],
                  res |-> GetDefaultPar(inst, d0)]
    /\ UNCHANGED <<inst, ctx, bwd>>

CallGetDefaultOptpars ==
    /\ inst.cls # "none"
    /\ out = NoCall
    /\ out' = [op |-> "get_default_optpars", args |-> [none |-> TRUE],
               res |-> GetDefaultOptpars(inst)]
    /\ UNCHANGED <<inst, ctx, bwd>>

\* The caller takes the result (or the exception) of the call that returned;
\* a finished backward pass is left.
Return ==
    /\ out # NoCall
    /\ out' = NoCall
    /\ bwd' = IF bwd.pc = "done" THEN Idle ELSE bwd
    /\ UNCHANGED <<inst, ctx>>

Next ==
    \/ Construct
    \/ CallPsf
    \/ CallEvaluate
    \/ CallMean
    \/ CallGetDefaultPar
    \/ CallGetDefaultOptpars
    \/ Return

Spec == Init /\ [][Next]_vars

(* ------------------ ModifiedBesselFn under autograd ------------------- *)
\* nu - 1.0 and nu + 1.0, element by element.
OrderMinusOne(nu) ==
    IF nu.dim = 0 THEN Scalar(RSub(nu.v, ROne))
    ELSE Grid(Tensor([i \in Rng(nu.rows) |->
                        [k \in Rng(nu.cols) |-> RSub(nu.at[i][k], ROne)]]))
OrderPlusOne(nu) ==
    IF nu.dim = 0 THEN Scalar(RAdd(nu.v, ROne))
    ELSE Grid(Tensor([i \in Rng(nu.rows) |->
                        [k \in Rng(nu.cols) |-> RAdd(nu.at[i][k], ROne)]]))

\* 0.5 * g * (a + b), kept as a term.
HalfTimes(g, a, b) ==
    [t |-> "mul", c |-> RHalf, g |-> g, sum |-> [lo |-> a, hi |-> b]]
\* 0.5 * grad_out * (lo + hi), element by element.
BackwardValue(grad_out, lo, hi) ==
    IF grad_out.dim = 0 THEN Scalar(HalfTimes(grad_out.v, lo.v, hi.v))
    ELSE Grid(Tensor([i \in Rng(grad_out.rows) |-> [k \in Rng(grad_out.cols) |->
            HalfTimes(grad_out.at[i][k], lo.at[i][k], hi.at[i][k])]]))

\* A value of the shape of val with g everywhere.
Full(val, g) ==
    IF val.dim = 0 THEN Scalar(g)
    ELSE Grid(Tensor([i \in Rng(val.rows) |-> [k \in Rng(val.cols) |-> g]]))

BesselInputs ==
    {Scalar(RI(x)) : x \in 0..MaxInp}
        \cup {Grid(Tensor([i \in Rng(1) |-> [k \in Rng(2) |-> RI(x + k)]])) :
                x \in 0..MaxInp}
BesselOrders == {Scalar(RI(n)) : n \in 0..MaxNu}
\* Upstream gradients of the shape of the forward value.
GradOuts(val) == {Full(val, ROne), Full(val, RI(2))}

\* modified_bessel(inp, nu) called on a tensor that requires grad.
Apply ==
    /\ out = NoCall
    /\ bwd.pc = "idle"
    /\ \E inp \in BesselInputs, nu \in BesselOrders :
          LET f == modified_bessel(inp, nu)
          IN  /\ ctx' = f.ctx
              /\ out' = [op |-> "apply", args |-> [inp |-> inp, nu |-> nu],
                         res |-> [kind |-> "tensor", val |-> f.val]]
    /\ UNCHANGED <<inst, bwd>>

\* backward(ctx, grad_out) is entered: inp and nu are read from the context.
BackwardEnter ==
    /\ ctx # NoCtx
    /\ out = NoCall
    /\ bwd.pc = "idle"
    /\ \E grad_out \in GradOuts(ScipyIv(ctx.nu, ctx.saved)) :
          bwd' = [pc |-> "low", inp |-> ctx.saved, nu |-> ctx.nu,
                  grad_out |-> grad_out, inner |-> <<>>]
    /\ UNCHANGED <<inst, out, ctx>>

\* ModifiedBesselFn.apply(inp, nu - 1.0): a forward call with a context of
\* its own, which is logged with its value.
BackwardApplyLow ==
    /\ bwd.pc = "low"
    /\ bwd' = [bwd EXCEPT !.pc = "high",
                          !.inner = Append(@, modified_bessel(bwd.inp,
                                                  OrderMinusOne(bwd.nu)))]
    /\ UNCHANGED <<inst, out, ctx>>

\* The second inner call as it would be with the sign of line 160 wrong:
\* ModifiedBesselFn.apply(inp, nu - 1.0) once more.
BackwardApplyHighSameOrder ==
    /\ bwd.pc = "high"
    /\ bwd' = [bwd EXCEPT !.pc = "sum",
                          !.inner = Append(@, modified_bessel(bwd.inp,
                                                  OrderMinusOne(bwd.nu)))]
    /\ UNCHANGED <<inst, out, ctx>>

\* ModifiedBesselFn.apply(inp, nu + 1.0).
BackwardApplyHigh ==
    /\ bwd.pc = "high"
    /\ bwd' = [bwd EXCEPT !.pc = "sum",
                          !.inner = Append(@, modified_bessel(bwd.inp,
                                                  OrderPlusOne(bwd.nu)))]
    /\ UNCHANGED <<inst, out, ctx>>

\* return 0.5 * grad_out * (... + ...), None
BackwardReturn ==
    /\ bwd.pc = "sum"
    /\ out' = [op |-> "backward", args |-> [grad_out |-> bwd.grad_out],
               res |-> [kind |-> "grads",
                        grad_inp |-> BackwardValue(bwd.grad_out, bwd.inner[1].val,
                                                   bwd.inner[2].val),
                        grad_nu |-> "None"]]
    /\ bwd' = [bwd EXCEPT !.pc = "done"]
    /\ UNCHANGED <<inst, ctx>>

BesselNext ==
    \/ Apply
    \/ BackwardEnter
    \/ BackwardApplyLow
    \/ BackwardApplyHigh
    \/ BackwardReturn
    \/ Return

BesselSpec == Init /\ [][BesselNext]_vars

(* ------------------------------ claims -------------------------------- *)
Constructed == inst.cls \in Classes
Pixels(rows, cols) == (0..(rows - 1)) \X (0..(cols - 1))

\* C1: for every concrete shape model with N stars and every observed image
\* d0, the bounds table has exactly as many rows as get_default_par(d0) has
\* entries, which is N + 3 + len(get_default_optpars()).
C1_BoundsMatchDefaultPar ==
    (Constructed /\ out.op = "get_default_par") =>
        /\ Has(inst, "bounds")
        /\ out.res.kind = "vector"
        /\ ALen(inst.bounds) = ALen(out.res.v)
        /\ ALen(out.res.v) = ALen(inst.xc) + 3 + ALen(GetDefaultOptpars(inst).v)

\* C2: for every concrete shape model with at least one star, mean returns an
\* image of the cutout shape that is the sum over the stars j of
\* evaluate(flux[j], xshift, yshift, optpars, j, norm) plus bkg, so that bkg
\* enters every pixel as itself.
C2_MeanIsSumOfEvaluatePlusBkg ==
    (Constructed /\ out.op = "mean" /\ (Has(inst, "xc") => ALen(inst.xc) > 0)) =>
        /\ out.res.kind = "image"
        /\ out.res.rows = inst.shape[1]
        /\ out.res.cols = inst.shape[2]
        /\ out.res.bkg = out.args.bkg
        /\ \A j \in DOMAIN inst.xc :
              out.res.terms[j] = Evaluate(inst, out.args.flux[j], out.args.xs,
                                          out.args.ys, out.args.optpars, j,
                                          out.args.norm)

\* C3: Moffat's evaluate returns, at every pixel of the cutout, the density
\* 1 / (1 + a*dx^2 + 2*b*dx*dy + c*dy^2)^(beta^2) with (a, b, c, beta) the
\* optical parameters and dx, dy the offsets evaluate computes for the star,
\* and the same image for -beta.
C3_MoffatDensity ==
    (inst.cls = "Moffat" /\ out.op = "evaluate" /\ out.args.j \in DOMAIN inst.xc) =>
        /\ out.res.kind = "image"
        /\ out.res.rows = inst.shape[1]
        /\ out.res.cols = inst.shape[2]
        /\ \E o \in {Offsets(inst, out.args.j, out.args.xs, out.args.ys)} :
           \A px \in Pixels(inst.shape[1], inst.shape[2]) :
              out.res.at[px[1]][px[2]].num =
                 [t |-> "invpow",
                  base |-> RAdd(ROne, Quad(out.args.params[0], out.args.params[1],
                                           out.args.params[2],
                                           o.dx.at[px[1]][px[2]],
                                           o.dy.at[px[1]][px[2]])),
                  expo |-> RSq(out.args.params[3])]
        /\ out.res = Evaluate(inst, out.args.flux, out.args.xs, out.args.ys,
                              [out.args.params EXCEPT ![3] = RNeg(@)],
                              out.args.j, out.args.norm)

\* C5: once an instance is constructed, no call of evaluate, mean, psf,
\* get_default_par or get_default_optpars changes it: the grid, the bounds,
\* the star coordinates and, for Zernike, the cache, the polar coordinates,
\* zpars and mode_mask (all fields of inst) stay as they are.
C5_CallsLeaveInstanceUnchanged == [][inst.cls # "none" => inst' = inst]_vars

C5_Witness ==
    /\ inst.cls = "Zernike"
    /\ ALen(inst.xc) = 2
    /\ out.op = "mean"
    /\ out.res.kind = "image"

\* 0.5 * g * (I_{nu-1}(x) + I_{nu+1}(x)) as a term.
BesselGradientTerm(g, nu, x) ==
    [t |-> "mul", c |-> RHalf, g |-> g,
     sum |-> [lo |-> [t |-> "iv", nu |-> RSub(nu, ROne), x |-> x],
              hi |-> [t |-> "iv", nu |-> RAdd(nu, ROne), x |-> x]]]

\* C6: a forward call leaves its input and order in the context and returns
\* I_nu(x); backward then makes exactly two inner forward calls, on the saved
\* input at the orders nu - 1 and nu + 1 and in that order, leaves the
\* context of the outer call alone, and returns
\* 0.5 * grad_out * (I_{nu-1}(x) + I_{nu+1}(x)) and None.
C6_BackwardRule ==
    /\ out.op = "apply" =>
          /\ ctx = [nu |-> out.args.nu, saved |-> out.args.inp]
          /\ out.res.val.dim = out.args.inp.dim
          /\ out.args.inp.dim = 0 =>
                out.res.val.v = [t |-> "iv", nu |-> out.args.nu.v, x |-> out.args.inp.v]
          /\ out.args.inp.dim = 2 =>
                \A px \in Pixels(out.args.inp.rows, out.args.inp.cols) :
                    out.res.val.at[px[1]][px[2]] =
                        [t |-> "iv", nu |-> out.args.nu.v,
                         x |-> out.args.inp.at[px[1]][px[2]]]
    /\ bwd.pc # "idle" =>
          /\ Len(bwd.inner) <= 2
          /\ ctx = [nu |-> bwd.nu, saved |-> bwd.inp]
    /\ bwd.pc = "done" =>
          /\ Len(bwd.inner) = 2
          /\ bwd.inner[1].ctx = [nu |-> Scalar(RSub(ctx.nu.v, ROne)), saved |-> ctx.saved]
          /\ bwd.inner[2].ctx = [nu |-> Scalar(RAdd(ctx.nu.v, ROne)), saved |-> ctx.saved]
          /\ out.op = "backward"
          /\ out.res.grad_nu = "None"
          /\ out.res.grad_inp.dim = ctx.saved.dim
          /\ ctx.saved.dim = 0 =>
                out.res.grad_inp.v =
                    BesselGradientTerm(out.args.grad_out.v, ctx.nu.v, ctx.saved.v)
          /\ ctx.saved.dim = 2 =>
                \A px \in Pixels(ctx.saved.rows, ctx.saved.cols) :
                    out.res.grad_inp.at[px[1]][px[2]] =
                        BesselGradientTerm(out.args.grad_out.at[px[1]][px[2]], ctx.nu.v,
                                    ctx.saved.at[px[1]][px[2]])

C6_Witness ==
    /\ bwd.pc = "done"
    /\ ctx.nu = Scalar(RZero)
    /\ ctx.saved.dim = 2
    /\ out.args.grad_out.at[0][1] = RI(2)

\* C7: constructing PRFWrap with a wrapped-model name that does not resolve
\* to a shape model raises, so that every wrapper there is holds a shape
\* model.
C7_UnresolvedNameFailsAtConstruction ==
    /\ (out.op = "init" /\ out.args.cls = "PRFWrap"
          /\ (Has(out.args.kw, "model") => out.args.kw.model \notin ShapeModels)) =>
            out.res.kind = "error"
    /\ inst.cls = "PRFWrap" => inst.submodel.cls \in ShapeModels

\* C8: in the call Airy.psf makes, the primitive's order is the constant 1
\* and its input, the tensor saved for backward, is bessel_arg = pi * r / Rn.
C8_AiryOrderOne ==
    (inst.cls = "Airy" /\ out.op = "psf" /\ out.res.kind = "image") =>
        /\ Has(ctx, "nu")
        /\ ctx.nu.dim = 0
        /\ ctx.nu.v = ROne
        /\ ctx.saved.dim = 2
        /\ \E o \in {CallerOffsets(inst, out.args.j, out.args.xs, out.args.ys)} :
              ctx.saved.at = AiryBesselArg(o.dx, o.dy, out.args.params).at

\* C9: two evaluate calls on one Zernike instance whose optical-parameter
\* vectors agree on (a, c), all else equal, return the same image.
C9_ZernikeDependsOnEnvelopeOnly ==
    (inst.cls = "Zernike" /\ out.op = "evaluate" /\ out.res.kind = "image") =>
        \A p2 \in OptparChoices(inst) :
            (p2[0] = out.args.params[0] /\ p2[1] = out.args.params[1]) =>
                \E r2 \in {Evaluate(inst, out.args.flux, out.args.xs, out.args.ys,
                                     p2, out.args.j, out.args.norm)} :
                    r2.kind = "image" => r2 = out.res

\* C10: for every zern_n and every N the Zernike constructor completes with
\* len(zpars) = len(mode_mask) = nk and a cache entry of cutout shape for
\* every star j and every mode k < len(zpars).
C10_ZernikeTablesCoverModes ==
    (out.op = "init" /\ out.args.cls = "Zernike") =>
        /\ out.res.kind = "object"
        /\ ALen(inst.zpars) = inst.z.nk
        /\ ALen(inst.mode_mask) = inst.z.nk
        /\ \A j \in DOMAIN inst.xc, k \in DOMAIN inst.zpars :
              /\ j \in DOMAIN inst.cache
              /\ k \in DOMAIN inst.cache[j]
              /\ DOMAIN inst.cache[j][k] = 0..(inst.shape[1] - 1)
              /\ \A i \in DOMAIN inst.cache[j][k] :
                    DOMAIN inst.cache[j][k][i] = 0..(inst.shape[2] - 1)

====
